---- MODULE Spec2Model ----
(***************************************************************************)
(* Model of arkouda/alignment.py: find, lookup and search_intervals, with  *)
(* the array primitives they are built from (concatenate, argsort,         *)
(* GroupBy, broadcast, gen_ranges).                                        *)
(*                                                                         *)
(* An array is a record [objtype, dtype, data]; data is a sequence of      *)
(* integers.  Positions and ranks are 0-based integers as in the code;     *)
(* At(s, i) reads position i of a sequence.                                *)
(* An argument that may be one array or a sequence of arrays is a record   *)
(* [form, cols]: form "array" holds the single array in cols[1], form      *)
(* "list" holds the sequence of arrays in cols.                            *)
(***************************************************************************)
EXTENDS Integers, Sequences, FiniteSets, TLC

VARIABLES pc, op, args, ret

vars == <<pc, op, args, ret>>

----------------------------------------------------------------------------
(* Bounds *)

MaxVal == 2
MaxSpace == 3
MaxQuery == 2
MaxLocales == 2
MaxPoint == 1
MaxIntervals == 2
MaxSearchVals == 2
MaxRows == 1
MaxDense == 4
MaxAlign == 2

----------------------------------------------------------------------------
(* Small helpers *)

At(s, i) == s[i + 1]

\* the sequence with the elements of f, held as an explicit tuple
AsSeq(f) == f \o <<>>

Range(s) == {s[k] : k \in 1..Len(s)}

RECURSIVE SumSeq(_)
SumSeq(s) == IF Len(s) = 0 THEN 0 ELSE s[1] + SumSeq(Tail(s))

RECURSIVE Flatten(_)
Flatten(ss) == IF Len(ss) = 0 THEN <<>> ELSE ss[1] \o Flatten(Tail(ss))

SeqsUpTo(S, n) == UNION {[1..k -> S] : k \in 0..n}

pdarray(dt, d) == [objtype |-> "pdarray", dtype |-> dt, data |-> d]

Strings(d) == [objtype |-> "Strings", dtype |-> "str", data |-> d]

Single(a) == [form |-> "array", cols |-> <<a>>]

Multi(as) == [form |-> "list", cols |-> as]

\* type(x) of an argument: the class of the single array, or list
TypeOf(x) == IF x.form = "array" THEN x.cols[1].objtype ELSE "list"

----------------------------------------------------------------------------
(* Array primitives *)

\* full(n, x): n copies of x
Fill(n, x) == AsSeq([k \in 1..n |-> x])

\* s + c, element by element
AddScalar(s, c) == AsSeq([k \in 1..Len(s) |-> s[k] + c])

\* (s >= lo) & (s < hi), element by element
InBand(s, lo, hi) == AsSeq([k \in 1..Len(s) |-> s[k] >= lo /\ s[k] < hi])

arange(n) == AsSeq([k \in 1..n |-> k - 1])

arangeFrom(a, b) == AsSeq([k \in 1..(b - a) |-> a + k - 1])

\* s[mask]: the entries of s at the positions where mask is true, in order
RECURSIVE CompressFrom(_, _, _)
CompressFrom(s, mask, k) ==
  IF k > Len(s) THEN <<>>
  ELSE (IF mask[k] THEN <<s[k]>> ELSE <<>>) \o CompressFrom(s, mask, k + 1)

Compress(s, mask) == CompressFrom(s, mask, 1)

\* s[idx]: gather by 0-based integer index
Gather(s, idx) == AsSeq([k \in 1..Len(idx) |-> At(s, idx[k])])

\* block b (1..L) of s under a block distribution over L locales
Block(s, b, L) == SubSeq(s, ((b - 1) * Len(s)) \div L + 1, (b * Len(s)) \div L)

\* concatenate(arrays, ordered): ordered keeps the arrays whole and in order;
\* unordered emits, locale by locale, each array's block on that locale
concatenate(arrays, ordered, L) ==
  IF ordered THEN Flatten(arrays)
  ELSE Flatten(AsSeq([b \in 1..L |->
         Flatten(AsSeq([a \in 1..Len(arrays) |-> Block(arrays[a], b, L)]))]))

\* stable ascending sort permutation: entry k is the 0-based original
\* position of the k-th smallest element
argsort(c) ==
  LET n == Len(c)
      rank == AsSeq([p \in 1..n |->
                Cardinality({q \in 1..n : c[q] < c[p] \/ (c[q] = c[p] /\ q < p)})])
  IN  AsSeq([k \in 1..n |-> (CHOOSE p \in 1..n : rank[p] = k - 1) - 1])

\* lexicographic order on key rows
RowLess(r, s) ==
  \E a \in 1..Len(r) : r[a] < s[a] /\ \A b \in 1..(a - 1) : r[b] = s[b]

\* rows of co-indexed columns
Rows(cols) ==
  IF Len(cols) = 0 THEN <<>>
  ELSE AsSeq([k \in 1..Len(cols[1]) |-> AsSeq([a \in 1..Len(cols) |-> cols[a][k]])])

\* a sorted sequence without its repeated entries
RECURSIVE Dedup(_)
Dedup(s) ==
  IF Len(s) < 2 THEN s
  ELSE IF s[1] = s[2] THEN Dedup(Tail(s))
  ELSE <<s[1]>> \o Dedup(Tail(s))

\* GroupBy(keys): the rows and the ascending unique rows
GroupBy(cols) ==
  LET rows == Rows(cols)
  IN  [keys |-> rows, unique_keys |-> Dedup(SortSeq(rows, RowLess))]

\* 1-based positions of the members of group u
Members(g, u) == {k \in 1..Len(g.keys) : g.keys[k] = g.unique_keys[u]}

RECURSIVE SumOver(_, _)
SumOver(S, v) ==
  IF S = {} THEN 0
  ELSE LET k == CHOOSE x \in S : TRUE IN v[k] + SumOver(S \ {k}, v)

MinOf(S) == CHOOSE x \in S : \A y \in S : x <= y

GroupSum(g, v) == AsSeq([u \in 1..Len(g.unique_keys) |-> SumOver(Members(g, u), v)])

GroupMin(g, v) == AsSeq([u \in 1..Len(g.unique_keys) |-> MinOf({v[k] : k \in Members(g, u)})])

GroupCount(g) == AsSeq([u \in 1..Len(g.unique_keys) |-> Cardinality(Members(g, u))])

\* 0-based position of the first minimal value of each group
GroupArgmin(g, v) ==
  AsSeq([u \in 1..Len(g.unique_keys) |->
           LET m == MinOf({v[k] : k \in Members(g, u)})
           IN  MinOf({k \in Members(g, u) : v[k] = m}) - 1])

\* g.broadcast(values, permute=True): the group's value at every member,
\* in the original order of the keys
GroupBroadcast(g, uv) ==
  AsSeq([k \in 1..Len(g.keys) |->
           uv[CHOOSE u \in 1..Len(g.unique_keys) : g.unique_keys[u] = g.keys[k]]])

\* base[idx] = v, for distinct 0-based positions idx
Scatter(base, idx, v) ==
  AsSeq([k \in 1..Len(base) |->
     IF \E j \in 1..Len(idx) : idx[j] = k - 1
       THEN v[CHOOSE j \in 1..Len(idx) : idx[j] = k - 1]
     ELSE base[k]])

\* where(cond, A, B) with scalar A and array B
where(cond, A, B) == AsSeq([k \in 1..Len(B) |-> IF cond[k] THEN A ELSE B[k]])

\* unique(a): the ascending distinct values of a
unique(a) == Dedup(SortSeq(a, LAMBDA x, y : x < y))

\* in1d(a, b): for every entry of a, whether it occurs in b
in1d(a, b) == AsSeq([k \in 1..Len(a) |-> \E j \in 1..Len(b) : b[j] = a[k]])

----------------------------------------------------------------------------
(* Outcomes of a call *)

Ok(v, w, p) == [kind |-> "ok", val |-> v, warned |-> w, prims |-> p]

Raise(e, p) == [kind |-> e, val |-> <<>>, warned |-> FALSE, prims |-> p]

NoRet == [kind |-> "none", val |-> <<>>, warned |-> FALSE, prims |-> <<>>]

----------------------------------------------------------------------------
(* zero_up, align, right_align: arrays are given by their data *)

\* as zero_up, but leaving the indices in the order of the groups
zero_up_grouped(vals) ==
  LET g == GroupBy(<<vals>>)
  IN  SortSeq(GroupBroadcast(g, arange(Len(g.unique_keys))), LAMBDA x, y : x < y)

\* as zero_up, but numbering the unique values from 1
zero_up_from1(vals) ==
  LET g == GroupBy(<<vals>>)
  IN  GroupBroadcast(g, arangeFrom(1, Len(g.unique_keys) + 1))

\* lines 40-43
zero_up(vals) ==
  LET g == GroupBy(<<vals>>)
      uniqueInds == arange(Len(g.unique_keys))
  IN  GroupBroadcast(g, uniqueInds)

\* inds[pos : pos + arg.size] for the a-th argument (lines 62-66)
alignSlice(inds, arrays, a) ==
  LET pos == SumSeq(AsSeq([x \in 1..(a - 1) |-> Len(arrays[x])]))
  IN  SubSeq(inds, pos + 1, pos + Len(arrays[a]))

\* as align, but indexing every array on its own
align_each(arrays) == AsSeq([a \in 1..Len(arrays) |-> zero_up(arrays[a])])

\* lines 60-67
align(arrays) ==
  LET c == concatenate(arrays, TRUE, 1)
      inds == zero_up(c)
  IN  AsSeq([a \in 1..Len(arrays) |-> alignSlice(inds, arrays, a)])

\* as right_align, but aligning all of left
right_align_all(left, right) ==
  [keep |-> in1d(left, unique(right)), aligned |-> align(<<left, right>>)]

\* lines 89-92
right_align(left, right) ==
  LET uright == unique(right)
      keep == in1d(left, uright)
      fleft == Compress(left, keep)
  IN  [keep |-> keep, aligned |-> align(<<fleft, right>>)]

----------------------------------------------------------------------------
(* find *)

\* as space_multiplicity, but counting the members from query as well
space_multiplicity_all(g, i, spacesize) == GroupCount(g)

\* line 151: per unique key, how many members come from space
space_multiplicity(g, i, spacesize) ==
  GroupSum(g, AsSeq([k \in 1..Len(i) |-> IF i[k] < spacesize THEN 1 ELSE 0]))

\* as uspaceidx, but without the replacement of absent keys by -1
uspaceidx_raw(g, i, spacesize) == GroupMin(g, i)

\* lines 160-163: per unique key, its first position in space, or -1
uspaceidx(g, i, spacesize) ==
  LET m == GroupMin(g, i)
  IN  where(AsSeq([u \in 1..Len(m) |-> m[u] >= spacesize]), -1, m)

\* as combinedIndex, but concatenated in order while the keys are interleaved
combinedIndex_ordered(spacesize, querysize, L) ==
  concatenate(<<arange(spacesize), arangeFrom(spacesize, spacesize + querysize)>>, TRUE, L)

\* line 147: i, the positions of the space and query members, interleaved as
\* the keys are
combinedIndex(spacesize, querysize, L) ==
  concatenate(<<arange(spacesize), arangeFrom(spacesize, spacesize + querysize)>>, FALSE, L)

\* lines 145-167: the part of find after the concatenation of the keys
findCore(c, spacesize, querysize, L, p) ==
  LET i == combinedIndex(spacesize, querysize, L)
      g == GroupBy(c)
      mult == space_multiplicity(g, i, spacesize)
      dup == \E u \in 1..Len(mult) : mult[u] > 1
      spaceidx == GroupBroadcast(g, uspaceidx(g, i, spacesize))
  IN  Ok(Compress(spaceidx, AsSeq([k \in 1..Len(i) |-> i[k] >= spacesize])), dup,
         p \o <<"arange", "arange", "concatenate", "GroupBy", "sum", "min", "where", "broadcast">>)

find(query, space, L) ==
  IF query.form = "array" THEN
    IF TypeOf(query) # TypeOf(space) THEN Raise("TypeError", <<>>)
    ELSE IF query.cols[1].dtype # space.cols[1].dtype
      THEN Raise("PrimitiveError", <<"concatenate">>)
    ELSE findCore(<<concatenate(<<space.cols[1].data, query.cols[1].data>>, FALSE, L)>>,
                  Len(space.cols[1].data), Len(query.cols[1].data), L, <<"concatenate">>)
  ELSE
    IF Len(query.cols) # Len(space.cols) THEN Raise("TypeError", <<>>)
    ELSE
      LET spacesize == {Len(space.cols[a].data) : a \in 1..Len(space.cols)}
          querysize == {Len(query.cols[a].data) : a \in 1..Len(query.cols)}
      IN  IF Cardinality(spacesize) # 1 \/ Cardinality(querysize) # 1
            THEN Raise("TypeError", <<>>)
          ELSE IF \E a \in 1..Len(query.cols) : query.cols[a].dtype # space.cols[a].dtype
            THEN Raise("TypeError", <<>>)
          ELSE findCore(AsSeq([a \in 1..Len(query.cols) |->
                           concatenate(<<space.cols[a].data, query.cols[a].data>>, FALSE, L)]),
                        CHOOSE n \in spacesize : TRUE, CHOOSE n \in querysize : TRUE, L,
                        AsSeq([a \in 1..Len(query.cols) |-> "concatenate"]))

----------------------------------------------------------------------------
(* lookup *)

\* values is a record [kind, data, NAcode]: kind "pdarray", or "Categorical"
\* with the codes in data
RawValues(d) == [kind |-> "pdarray", data |-> d, NAcode |-> -1]

Categorical(codes, na) == [kind |-> "Categorical", data |-> codes, NAcode |-> na]

\* as retvals, but taking index 0 for not found
retvals_positive(values, idx, fillvalue) ==
  LET found == AsSeq([k \in 1..Len(idx) |-> idx[k] > 0])
  IN  Scatter(Fill(Len(idx), fillvalue), Compress(arange(Len(idx)), found),
              Gather(values, Compress(idx, found)))

\* lines 224-227: fillvalue everywhere, then the value at every found index
retvals(values, idx, fillvalue) ==
  LET found == AsSeq([k \in 1..Len(idx) |-> idx[k] >= 0])
  IN  Scatter(Fill(Len(idx), fillvalue), Compress(arange(Len(idx)), found),
              Gather(values, Compress(idx, found)))

\* lines 221-228: lookup on a plain values array
lookupRaw(keys, values, arguments, fillvalue, L) ==
  LET f == find(arguments, keys, L)
  IN  IF f.kind # "ok" THEN f
      ELSE IF \E k \in 1..Len(f.val) : f.val[k] >= Len(values)
        THEN [f EXCEPT !.kind = "PrimitiveError", !.val = <<>>,
                       !.prims = f.prims \o <<"full", "getitem">>]
      ELSE [f EXCEPT !.val = retvals(values, f.val, fillvalue),
                     !.prims = f.prims \o <<"full", "getitem", "setitem">>]

\* lines 218-228; a Categorical comes back as its codes, to be wrapped with
\* the categories of values
lookup(keys, values, arguments, fillvalue, L) ==
  IF values.kind = "Categorical"
    THEN lookupRaw(keys, values.data, arguments, values.NAcode, L)
  ELSE lookupRaw(keys, values.data, arguments, fillvalue, L)

----------------------------------------------------------------------------
(* search_intervals *)

\* gen_ranges(starts, ends): the integers of every half-open range
\* [starts[j], ends[j]) in one flat sequence, and the offset of each range
gen_ranges(starts, ends) ==
  [segs   |-> AsSeq([j \in 1..Len(starts) |->
                 SumSeq(AsSeq([x \in 1..(j - 1) |-> ends[x] - starts[x]]))]),
   ranges |-> Flatten(AsSeq([j \in 1..Len(starts) |-> arangeFrom(starts[j], ends[j])]))]

\* broadcast(segs, vals, size): vals[j] at every position of segment j
broadcast(segs, v, size) ==
  AsSeq([t \in 1..size |->
     v[CHOOSE j \in 1..Len(segs) :
         /\ segs[j] <= t - 1
         /\ \A x \in 1..Len(segs) : segs[x] <= t - 1 => x <= j]])

\* the first column of the unique keys of a grouping
KeyCol(g, a) == AsSeq([u \in 1..Len(g.unique_keys) |-> g.unique_keys[u][a]])

isPdarray(x) == x.form = "array" /\ x.cols[1].objtype = "pdarray"

\* as highGeqLow, but asking for high > low
highGeqLow_strict(low, high) == \A j \in 1..Len(low) : high[j] > low[j]

\* lines 340 and 409: (high >= low).all()
highGeqLow(low, high) == \A j \in 1..Len(low) : high[j] >= low[j]

\* as tmpidx, but taking the least interval id whatever the tiebreak
tmpidx_byid(byval, tiebreak, intervalidx) == GroupArgmin(byval, intervalidx)

\* lines 372 and 455: per value, the position of the candidate interval of
\* least tiebreak
tmpidx(byval, tiebreak, intervalidx) == GroupArgmin(byval, Gather(tiebreak, intervalidx))

\* as isahit, but content with a pair seen on some axis
isahit_any(count, naxes) == AsSeq([u \in 1..Len(count) |-> count[u] >= 1])

\* line 450: the (value, interval) pairs seen on every axis
isahit(count, naxes) == AsSeq([u \in 1..Len(count) |-> count[u] = naxes])

\* lines 369-374: per value, the interval of least tiebreak
searchSingleWinners(containinginterval, matchintervalidx, byvalidx, tiebreak) ==
  Scatter(containinginterval, KeyCol(byvalidx, 1),
          Gather(matchintervalidx, tmpidx(byvalidx, tiebreak, matchintervalidx)))

\* lines 365-369: the (value, interval) pairs that are no bounds
searchSingleMatches(containinginterval, matches, matchintervalidx0, validmatch, nlow, tiebreak) ==
  searchSingleWinners(containinginterval,
                      Compress(matchintervalidx0, validmatch),
                      GroupBy(<<AddScalar(Compress(matches, validmatch), -nlow)>>),
                      tiebreak)

\* lines 361-365
searchSingleRanges(containinginterval, matches, gr, hitidx, nlow, boundary, tiebreak) ==
  searchSingleMatches(containinginterval, matches,
                      broadcast(gr.segs, hitidx, Len(matches)),
                      InBand(matches, nlow, boundary),
                      nlow, tiebreak)

\* lines 357-374: the body of the if at line 356
searchSingleHits(containinginterval, perm, gr, hitidx, nlow, boundary, tiebreak) ==
  searchSingleRanges(containinginterval, Gather(perm, gr.ranges), gr, hitidx,
                     nlow, boundary, tiebreak)

\* lines 350-356: the bounds of the intervals in the sorted array
searchSingleSorted(containinginterval, perm, starts, ends, valid, nlow, boundary, tiebreak) ==
  IF \E j \in 1..Len(valid) : valid[j]
    THEN [val |-> searchSingleHits(containinginterval, perm,
                     gen_ranges(AddScalar(Compress(starts, valid), 1), Compress(ends, valid)),
                     Compress(arange(Len(valid)), valid), nlow, boundary, tiebreak),
          hit |-> TRUE]
  ELSE [val |-> containinginterval, hit |-> FALSE]

\* line 355
searchSingleBounds(containinginterval, perm, starts, ends, nlow, boundary, tiebreak) ==
  searchSingleSorted(containinginterval, perm, starts, ends,
                     AsSeq([j \in 1..Len(starts) |-> ends[j] > starts[j] + 1]),
                     nlow, boundary, tiebreak)

\* lines 349-353
searchSinglePerm(containinginterval, perm, iperm, nlow, boundary, tiebreak) ==
  searchSingleBounds(containinginterval, perm, SubSeq(iperm, 1, nlow),
                     SubSeq(iperm, boundary + 1, Len(iperm)), nlow, boundary, tiebreak)

\* lines 346-348
searchSingleConcat(containinginterval, perm, nlow, boundary, tiebreak) ==
  searchSinglePerm(containinginterval, perm, argsort(perm), nlow, boundary, tiebreak)

\* lines 343-375: the search over one axis; hit tells whether the body of
\* the if at line 356 ran
searchSingle(vals, low, high, tiebreak) ==
  searchSingleConcat(Fill(Len(vals), -1), argsort(concatenate(<<low, vals, high>>, TRUE, 1)),
                     Len(low), Len(vals) + Len(low), tiebreak)

\* lines 453-458: per value, the hit of least tiebreak
searchMultiWinners(containinginterval, intervalhits, byval, tiebreak) ==
  Scatter(containinginterval, KeyCol(byval, 1),
          Gather(intervalhits, tmpidx(byval, tiebreak, intervalhits)))

\* lines 450-453: the pairs that are hits
searchMultiHits(containinginterval, byvalinterval, hit, tiebreak) ==
  searchMultiWinners(containinginterval, Compress(KeyCol(byvalinterval, 2), hit),
                     GroupBy(<<Compress(KeyCol(byvalinterval, 1), hit)>>), tiebreak)

\* lines 448-450: the (value, interval) pairs of all axes, grouped
searchMultiGrouped(containinginterval, byvalinterval, naxes, tiebreak) ==
  searchMultiHits(containinginterval, byvalinterval,
                  isahit(GroupCount(byvalinterval), naxes), tiebreak)

\* lines 436-448: per axis, the pairs that are no bounds; then all axes
\* in one
searchMultiMatches(containinginterval, matches, matchintervalidx, validmatch, naxes, lowsize, tiebreak, L) ==
  searchMultiGrouped(containinginterval,
    GroupBy(<<concatenate(AsSeq([a \in 1..naxes |->
                  AddScalar(Compress(matches[a], validmatch[a]), -lowsize)]), FALSE, L),
              concatenate(AsSeq([a \in 1..naxes |->
                  Compress(matchintervalidx[a], validmatch[a])]), FALSE, L)>>),
    naxes, tiebreak)

\* lines 431-436: per axis, what lies between the bounds of the valid
\* intervals
searchMultiRanges(containinginterval, matches, gr, hitidx, naxes, lowsize, boundary, tiebreak, L) ==
  searchMultiMatches(containinginterval, matches,
    AsSeq([a \in 1..naxes |-> broadcast(gr[a].segs, hitidx, Len(matches[a]))]),
    AsSeq([a \in 1..naxes |-> InBand(matches[a], lowsize, boundary)]),
    naxes, lowsize, tiebreak, L)

\* lines 427-431
searchMultiValid(containinginterval, perm, gr, hitidx, naxes, lowsize, boundary, tiebreak, L) ==
  searchMultiRanges(containinginterval,
                    AsSeq([a \in 1..naxes |-> Gather(perm[a], gr[a].ranges)]),
                    gr, hitidx, naxes, lowsize, boundary, tiebreak, L)

\* lines 424-459: returned is FALSE when the function falls off the end of
\* the if at line 426 without reaching the return at line 459
searchMultiSorted(containinginterval, perm, starts, ends, valid, naxes, lowsize, boundary, tiebreak, L) ==
  IF \E j \in 1..lowsize : valid[j]
    THEN [val |-> searchMultiValid(containinginterval, perm,
                     AsSeq([a \in 1..naxes |->
                        gen_ranges(AddScalar(Compress(starts[a], valid), 1),
                                   Compress(ends[a], valid))]),
                     Compress(arange(Len(valid)), valid),
                     naxes, lowsize, boundary, tiebreak, L),
          returned |-> TRUE]
  ELSE [val |-> <<>>, returned |-> FALSE]

\* lines 418-424
searchMultiBounds(containinginterval, perm, starts, ends, naxes, lowsize, boundary, tiebreak, L) ==
  searchMultiSorted(containinginterval, perm, starts, ends,
    AsSeq([j \in 1..lowsize |-> \A a \in 1..naxes : ends[a][j] > starts[a][j] + 1]),
    naxes, lowsize, boundary, tiebreak, L)

\* lines 417-421
searchMultiPerm(containinginterval, perm, iperm, naxes, lowsize, boundary, tiebreak, L) ==
  searchMultiBounds(containinginterval, perm,
    AsSeq([a \in 1..naxes |-> SubSeq(iperm[a], 1, lowsize)]),
    AsSeq([a \in 1..naxes |-> SubSeq(iperm[a], boundary + 1, Len(iperm[a]))]),
    naxes, lowsize, boundary, tiebreak, L)

\* lines 414-416
searchMultiConcat(containinginterval, perm, naxes, lowsize, boundary, tiebreak, L) ==
  searchMultiPerm(containinginterval, perm,
                  AsSeq([a \in 1..naxes |-> argsort(perm[a])]),
                  naxes, lowsize, boundary, tiebreak, L)

\* lines 412-459: the search over several axes; vals, low and high are
\* sequences of columns
searchMulti(vals, low, high, tiebreak, L) ==
  searchMultiConcat(Fill(Len(vals[1]), -1),
    AsSeq([a \in 1..Len(low) |-> argsort(concatenate(<<low[a], vals[a], high[a]>>, TRUE, 1))]),
    Len(low), Len(low[1]), Len(vals[1]) + Len(low[1]), tiebreak, L)

NumericDtypes == {"int64", "uint64", "float64"}

Sizes(x) == {Len(x.cols[a].data) : a \in 1..Len(x.cols)}

Datas(x) == AsSeq([a \in 1..Len(x.cols) |-> x.cols[a].data])

\* a tiebreak argument is [given, ispdarray, data]; given is FALSE for None
NoTiebreak == [given |-> FALSE, ispdarray |-> FALSE, data |-> <<>>]

Tiebreak(d) == [given |-> TRUE, ispdarray |-> TRUE, data |-> d]

\* lines 324-375
searchIntervalsSingle(vals, low, high, tiebreak, p) ==
  IF ~isPdarray(low) \/ ~isPdarray(high) THEN Raise("TypeError", p)
  ELSE IF vals.cols[1].dtype # low.cols[1].dtype \/ vals.cols[1].dtype # high.cols[1].dtype
    THEN Raise("TypeError", p)
  ELSE IF Len(low.cols[1].data) # Len(high.cols[1].data) THEN Raise("ValueError", p)
  ELSE IF ~highGeqLow(low.cols[1].data, high.cols[1].data) THEN Raise("ValueError", p)
  ELSE
    LET r == searchSingle(vals.cols[1].data, low.cols[1].data, high.cols[1].data, tiebreak)
    IN  Ok(r.val, FALSE,
           p \o <<"ones", "concatenate", "argsort", "argsort">>
             \o (IF r.hit THEN <<"gen_ranges", "arange", "broadcast", "GroupBy", "argmin">>
                 ELSE <<>>))

\* lines 376-459
searchIntervalsMulti(vals, low, high, tiebreak, L, p) ==
  IF low.form # "list" \/ high.form # "list" THEN Raise("TypeError", p)
  ELSE IF Len(vals.cols) # Len(low.cols) \/ Len(vals.cols) # Len(high.cols)
    THEN Raise("TypeError", p)
  ELSE IF \E x \in {vals, low, high} : \E a \in 1..Len(x.cols) : x.cols[a].objtype # "pdarray"
    THEN Raise("TypeError", p)
  ELSE IF Cardinality(Sizes(vals)) # 1 \/ Cardinality(Sizes(low)) # 1 \/ Cardinality(Sizes(high)) # 1
    THEN Raise("TypeError", p)
  ELSE IF \E a \in 1..Len(vals.cols) :
            vals.cols[a].dtype # low.cols[a].dtype \/ vals.cols[a].dtype # high.cols[a].dtype
    THEN Raise("TypeError", p)
  ELSE IF Sizes(low) # Sizes(high) THEN Raise("ValueError", p)
  ELSE IF ~ \A a \in 1..Len(low.cols) : highGeqLow(low.cols[a].data, high.cols[a].data)
    THEN Raise("ValueError", p)
  ELSE
    LET r == searchMulti(Datas(vals), Datas(low), Datas(high), tiebreak, L)
        q == p \o <<"ones">> \o Fill(Len(vals.cols), "concatenate")
               \o Fill(2 * Len(vals.cols), "argsort")
    IN  IF r.returned
          THEN Ok(r.val, FALSE,
                  q \o <<"gen_ranges", "arange", "broadcast", "concatenate", "concatenate",
                         "GroupBy", "count", "GroupBy", "argmin">>)
        ELSE [kind |-> "None", val |-> <<>>, warned |-> FALSE, prims |-> q]

\* lines 313-461, for intervals given as a 2-tuple (low, high)
search_intervals(vals, low, high, tiebreak, L) ==
  IF low.form = "list" /\ Len(low.cols) = 0 THEN Raise("IndexError", <<>>)
  ELSE
    LET intervalsize == Len(low.cols[1].data)
        p == IF tiebreak.given THEN <<>> ELSE <<"arange">>
        tb == IF tiebreak.given THEN tiebreak.data ELSE arange(intervalsize)
    IN  IF tiebreak.given /\ (~tiebreak.ispdarray \/ Len(tiebreak.data) # intervalsize)
          THEN Raise("TypeError", p)
        ELSE IF isPdarray(vals) /\ vals.cols[1].dtype \in NumericDtypes
          THEN searchIntervalsSingle(vals, low, high, tb, p)
        ELSE IF vals.form = "list"
          THEN searchIntervalsMulti(vals, low, high, tb, L, p)
        ELSE Raise("TypeError", p)

----------------------------------------------------------------------------
(* in1d_intervals *)

\* as found, but taking interval 0 for not found
found_positive(idx) == AsSeq([k \in 1..Len(idx) |-> idx[k] > 0])

\* line 273: idx > -1
found(idx) == AsSeq([k \in 1..Len(idx) |-> idx[k] > -1])

\* as containresult, but with the arguments of in1d exchanged
containresult_swapped(intervalsize, idx) == in1d(idx, arange(intervalsize))

\* as containresult, but numbering the intervals from 1
containresult_from1(intervalsize, idx) == in1d(arangeFrom(1, intervalsize + 1), idx)

\* line 275: which interval ids occur in idx
containresult(intervalsize, idx) == in1d(arange(intervalsize), idx)

\* lines 272-278.  The result is found, or <<found, containresult>> when
\* symmetric.  Comparing None with -1 at line 273 is a TypeError; a sequence
\* as intervals[0] has no size at line 275.
in1dFrom(s, low, symmetric) ==
  IF s.kind = "None" THEN Raise("TypeError", s.prims)
  ELSE IF s.kind # "ok" THEN s
  ELSE IF ~symmetric THEN Ok(found(s.val), FALSE, s.prims)
  ELSE IF low.form = "list" THEN Raise("AttributeError", s.prims)
  ELSE Ok(<<found(s.val), containresult(Len(low.cols[1].data), s.val)>>, FALSE,
          s.prims \o <<"arange", "in1d">>)

\* line 272 and what follows it
in1d_intervals(vals, low, high, symmetric, L) ==
  in1dFrom(search_intervals(vals, low, high, NoTiebreak, L), low, symmetric)

----------------------------------------------------------------------------
(* interval_lookup *)

\* a fillvalue argument is [given, value]; given is FALSE for None
NoFill == [given |-> FALSE, value |-> 0]

FillWith(x) == [given |-> TRUE, value |-> x]

\* lines 496-500: zeros, filled with fillvalue unless it is None, then the
\* value at every found index
res(values, idx, fillvalue) ==
  Scatter(Fill(Len(idx), IF fillvalue.given THEN fillvalue.value ELSE 0),
          Compress(arange(Len(idx)), found(idx)),
          Gather(values, Compress(idx, found(idx))))

\* lines 495-501: the result from the outcome s of search_intervals
lookupFrom(s, values, fillvalue) ==
  LET p == s.prims \o (IF fillvalue.given THEN <<"zeros", "fill">> ELSE <<"zeros">>)
  IN  IF s.kind = "None" THEN Raise("TypeError", p)
      ELSE IF s.kind # "ok" THEN s
      ELSE IF \E k \in 1..Len(s.val) : s.val[k] >= Len(values)
        THEN Raise("PrimitiveError", p \o <<"getitem">>)
      ELSE Ok(res(values, s.val, fillvalue), FALSE, p \o <<"getitem", "setitem">>)

\* lines 494-501: interval_lookup on a plain values array
intervalLookupRaw(low, high, values, arguments, fillvalue, tiebreak, L) ==
  lookupFrom(search_intervals(arguments, low, high, tiebreak, L), values, fillvalue)

\* lines 491-501; a Categorical comes back as its codes, to be wrapped with
\* the categories of values.  The recursive call of line 492 passes no
\* tiebreak.
interval_lookup(low, high, values, arguments, fillvalue, tiebreak, L) ==
  IF values.kind = "Categorical"
    THEN intervalLookupRaw(low, high, values.data, arguments, FillWith(values.NAcode),
                           NoTiebreak, L)
  ELSE intervalLookupRaw(low, high, values.data, arguments, fillvalue, tiebreak, L)

----------------------------------------------------------------------------
(* Inputs *)

Vals == 0..MaxVal

Locales == 1..MaxLocales

Int64(d) == pdarray("int64", d)

\* rows of two columns: the second column holds 0 or 1
TwoCols(n) == {<<c1, c2>> : c1 \in [1..n -> Vals], c2 \in [1..n -> 0..1]}

\* arrays of every class and dtype; the data plays no part in the checks
ShapeArrays ==
  {pdarray("int64", d) : d \in SeqsUpTo({0}, 2)}
    \cup {pdarray("float64", d) : d \in SeqsUpTo({0}, 2)}
    \cup {Strings(d) : d \in SeqsUpTo({0}, 2)}

ShapeLists == {Multi(cs) : cs \in SeqsUpTo(ShapeArrays, 2)}

\* find over every combination of classes, dtypes, arities and lengths.
\* A sequence as query with a single array as space is left out: what
\* len() and iteration of an array do is decided outside alignment.py.
FindShapes ==
  {<<Single(q), Single(s)>> : q \in ShapeArrays, s \in ShapeArrays}
    \cup {<<Single(q), s>> : q \in ShapeArrays, s \in ShapeLists}
    \cup {<<q, s>> : q \in ShapeLists, s \in ShapeLists}

\* lookup values: of the length of keys (or one short), plain or Categorical
LookupValues(n) ==
  {RawValues(AsSeq([k \in 1..n |-> 10 * k])),
   RawValues(AsSeq([k \in 1..n |-> 10 * (n + 1 - k)])),
   RawValues(AsSeq([k \in 1..(n - 1) |-> 10 * k])),
   Categorical(AsSeq([k \in 1..n |-> n - k]), n)}

\* the fill value when the caller gives none (line 170)
DefaultFill == -1

FillValues == {DefaultFill, 99}

\* interval bounds and values of the single-axis searches
Points == 0..MaxPoint

\* interval bounds and values on each axis of the multi-axis searches
AxisPoints == 0..1

\* values tested for membership: the points and one value above them all
MemberPoints == 0..(MaxPoint + 1)

\* n intervals over the points P, as <<low, high>>
IntervalsOver(n, P) == {<<lo, hi>> : lo \in [1..n -> P], hi \in [1..n -> P]}

AllValid(iv) == \A j \in 1..Len(iv[1]) : iv[2][j] >= iv[1][j]

\* tiebreak arguments for n intervals: None, the ids reversed, all equal
Reversed(n) == AsSeq([j \in 1..n |-> n - j])

TieChoices(n) == {NoTiebreak, Tiebreak(Reversed(n)), Tiebreak(Fill(n, 0))}

\* arrays of every class and dtype for search_intervals
SearchShapeArrays ==
  {pdarray("int64", <<0>>), pdarray("int64", <<0, 0>>), pdarray("float64", <<0>>),
   pdarray("bool", <<0>>), Strings(<<0>>)}

SearchShapeLists == {Multi(cs) : cs \in SeqsUpTo(SearchShapeArrays, 2)}

SearchShapeVals == {Single(x) : x \in SearchShapeArrays} \cup SearchShapeLists

\* A Strings object as a bound is left out: line 318 indexes it, and what
\* that yields is decided outside alignment.py.
SearchShapeBounds ==
  {Single(x) : x \in {y \in SearchShapeArrays : y.objtype = "pdarray"}} \cup SearchShapeLists

\* a tiebreak that is no pdarray, and pdarrays of the wrong length
BadTiebreaks ==
  {[given |-> TRUE, ispdarray |-> FALSE, data |-> Fill(n, 0)] : n \in 0..MaxIntervals}
    \cup {Tiebreak(Fill(n, 0)) : n \in 0..(MaxIntervals + 1)}

\* values of the arrays to align: small ones, which make dense indices,
\* and their multiples of 5, which leave gaps
SparseVals == Vals \cup {5 * v : v \in Vals}

\* values for n intervals: one plain value per interval, or one code
IntervalValues(n) ==
  {RawValues(AsSeq([j \in 1..n |-> 10 * j])), Categorical(AsSeq([j \in 1..n |-> n - j]), n)}

\* the tiebreaks and fill values that go with plain values or with codes
LookupChoices(v) ==
  IF v.kind = "Categorical"
    THEN {<<tb, FillWith(DefaultFill)>> : tb \in {NoTiebreak, Tiebreak(Reversed(Len(v.data)))}}
  ELSE {<<NoTiebreak, FillWith(DefaultFill)>>, <<NoTiebreak, NoFill>>,
        <<NoTiebreak, FillWith(99)>>, <<Tiebreak(Reversed(Len(v.data))), FillWith(99)>>}

----------------------------------------------------------------------------
(* Specification *)

NoArgs == [none |-> TRUE]

Init == pc = "idle" /\ op = "none" /\ args = NoArgs /\ ret = NoRet

\* the caller passes the arguments of a call of f
Invoke(f, a) == pc' = "called" /\ op' = f /\ args' = a /\ ret' = NoRet

DoFind(query, space, L) ==
  Invoke("find", [query |-> query, space |-> space, locales |-> L])

\* find: one array each with every data; two columns each with every data;
\* every combination of classes, dtypes, arities and lengths
InvokeFind ==
  /\ pc = "idle"
  /\ \E L \in Locales :
       \/ \E q \in SeqsUpTo(Vals, MaxQuery), s \in SeqsUpTo(Vals, MaxSpace) :
            DoFind(Single(Int64(q)), Single(Int64(s)), L)
       \/ \E nq \in 0..(MaxQuery - 1), ns \in 0..(MaxSpace - 1) :
            \E q \in TwoCols(nq), s \in TwoCols(ns) :
              DoFind(Multi(<<Int64(q[1]), Int64(q[2])>>), Multi(<<Int64(s[1]), Int64(s[2])>>), L)
       \/ \E in \in FindShapes : DoFind(in[1], in[2], L)

DoLookup(keys, values, arguments, fillvalue, L) ==
  Invoke("lookup", [keys |-> keys, values |-> values, arguments |-> arguments,
                    fillvalue |-> fillvalue, locales |-> L])

\* lookup: one array of keys with every data, values and fill value; two
\* columns of keys with every data; keys and arguments of every class and dtype
InvokeLookup ==
  /\ pc = "idle"
  /\ \E L \in Locales :
       \/ \E q \in SeqsUpTo(Vals, MaxQuery), s \in SeqsUpTo(Vals, MaxSpace - 1) :
            \E v \in LookupValues(Len(s)), f \in FillValues :
              DoLookup(Single(Int64(s)), v, Single(Int64(q)), f, L)
       \/ \E nq \in 0..(MaxQuery - 1), ns \in 0..(MaxSpace - 1) :
            \E q \in TwoCols(nq), s \in TwoCols(ns) :
              DoLookup(Multi(<<Int64(s[1]), Int64(s[2])>>), RawValues(arangeFrom(10, 10 + ns)),
                       Multi(<<Int64(q[1]), Int64(q[2])>>), -1, L)
       \/ \E q \in ShapeArrays, s \in ShapeArrays :
            DoLookup(Single(s), RawValues(arangeFrom(10, 10 + Len(s.data))), Single(q), -1, L)

DoSearch(vals, low, high, tiebreak, L) ==
  Invoke("search_intervals",
         [vals |-> vals, low |-> low, high |-> high, tiebreak |-> tiebreak, locales |-> L])

\* search_intervals on one array of values: every set of intervals with
\* high >= low, every values and tiebreak
InvokeSearchSingle ==
  /\ pc = "idle"
  /\ \E n \in 0..MaxIntervals :
       \E iv \in IntervalsOver(n, Points), v \in SeqsUpTo(Points, MaxSearchVals),
          tb \in TieChoices(n) :
         /\ AllValid(iv)
         /\ DoSearch(Single(Int64(v)), Single(Int64(iv[1])), Single(Int64(iv[2])), tb, 1)

\* search_intervals on rows of two columns: every set of boxes with
\* high >= low on both axes, every rows and tiebreak
InvokeSearchMulti ==
  /\ pc = "idle"
  /\ \E n \in 0..MaxIntervals, nv \in 0..MaxRows, L \in Locales :
       \E iv1 \in IntervalsOver(n, AxisPoints), iv2 \in IntervalsOver(n, AxisPoints),
          v1 \in [1..nv -> AxisPoints], v2 \in [1..nv -> AxisPoints],
          tb \in {NoTiebreak, Tiebreak(Reversed(n))} :
         /\ AllValid(iv1) /\ AllValid(iv2)
         /\ DoSearch(Multi(<<Int64(v1), Int64(v2)>>),
                     Multi(<<Int64(iv1[1]), Int64(iv2[1])>>),
                     Multi(<<Int64(iv1[2]), Int64(iv2[2])>>), tb, L)

\* search_intervals on arguments of every kind: every combination of forms,
\* classes, dtypes, arities and lengths of vals, low and high; malformed
\* tiebreaks; and every interval bounds, high < low included, in both forms
InvokeSearchArgs ==
  /\ pc = "idle"
  /\ \/ \E v \in SearchShapeVals, lo \in SearchShapeBounds, hi \in SearchShapeBounds :
          DoSearch(v, lo, hi, NoTiebreak, 1)
     \/ \E n \in 0..MaxIntervals, tb \in BadTiebreaks :
          \/ DoSearch(Single(Int64(<<0>>)), Single(Int64(Fill(n, 0))), Single(Int64(Fill(n, 0))), tb, 1)
          \/ DoSearch(Multi(<<Int64(<<0>>)>>), Multi(<<Int64(Fill(n, 0))>>),
                      Multi(<<Int64(Fill(n, 0))>>), tb, 1)
     \/ \E n \in 0..MaxIntervals :
          \E iv \in IntervalsOver(n, Points), v \in SeqsUpTo(Points, 1), tb \in TieChoices(n) :
            DoSearch(Single(Int64(v)), Single(Int64(iv[1])), Single(Int64(iv[2])), tb, 1)
     \/ \E n \in 0..MaxIntervals, nv \in 0..1 :
          \E iv1 \in IntervalsOver(n, AxisPoints), iv2 \in IntervalsOver(n, AxisPoints),
             v1 \in [1..nv -> AxisPoints], v2 \in [1..nv -> AxisPoints] :
            DoSearch(Multi(<<Int64(v1), Int64(v2)>>),
                     Multi(<<Int64(iv1[1]), Int64(iv2[1])>>),
                     Multi(<<Int64(iv1[2]), Int64(iv2[2])>>), NoTiebreak, 1)

\* zero_up on every array
InvokeZeroUp ==
  /\ pc = "idle"
  /\ \E v \in SeqsUpTo(SparseVals, MaxDense) : Invoke("zero_up", [vals |-> v, again |-> FALSE])

\* the caller passes the result of zero_up to zero_up
ZeroUpAgain ==
  /\ pc = "done" /\ op = "zero_up" /\ ~args.again
  /\ Invoke("zero_up", [vals |-> ret.val, again |-> TRUE])

\* align on one array, on two arrays, and on three short arrays
InvokeAlign ==
  /\ pc = "idle"
  /\ \/ \E v \in SeqsUpTo(SparseVals, MaxDense) :
          Invoke("align", [arrays |-> <<v>>, again |-> FALSE])
     \/ \E v \in SeqsUpTo(SparseVals, MaxAlign), w \in SeqsUpTo(SparseVals, MaxAlign) :
          Invoke("align", [arrays |-> <<v, w>>, again |-> FALSE])
     \/ \E u \in SeqsUpTo(Vals, MaxAlign - 1), v \in SeqsUpTo(Vals, MaxAlign - 1),
           w \in SeqsUpTo(Vals, MaxAlign - 1) :
          Invoke("align", [arrays |-> <<u, v, w>>, again |-> FALSE])

\* the caller passes the results of align to align
AlignAgain ==
  /\ pc = "done" /\ op = "align" /\ ~args.again
  /\ Invoke("align", [arrays |-> ret.val, again |-> TRUE])

\* right_align on every two arrays
InvokeRightAlign ==
  /\ pc = "idle"
  /\ \E l \in SeqsUpTo(SparseVals, MaxAlign), r \in SeqsUpTo(SparseVals, MaxAlign) :
       Invoke("right_align", [left |-> l, right |-> r])

\* in1d_intervals on one array of values: every set of intervals, valid
\* or not, every values, with and without symmetric; and on rows of two
\* columns with one box
InvokeIn1dIntervals ==
  /\ pc = "idle"
  /\ \E sym \in BOOLEAN :
       \/ \E n \in 0..MaxIntervals :
            \E iv \in IntervalsOver(n, Points), v \in SeqsUpTo(MemberPoints, MaxSearchVals) :
              Invoke("in1d_intervals",
                     [vals |-> Single(Int64(v)), low |-> Single(Int64(iv[1])),
                      high |-> Single(Int64(iv[2])), symmetric |-> sym, locales |-> 1])
       \/ \E iv1 \in IntervalsOver(1, AxisPoints), iv2 \in IntervalsOver(1, AxisPoints),
             v \in AxisPoints :
            /\ AllValid(iv1) /\ AllValid(iv2)
            /\ Invoke("in1d_intervals",
                      [vals |-> Multi(<<Int64(<<v>>), Int64(<<v>>)>>),
                       low |-> Multi(<<Int64(iv1[1]), Int64(iv2[1])>>),
                       high |-> Multi(<<Int64(iv1[2]), Int64(iv2[2])>>),
                       symmetric |-> sym, locales |-> 1])

DoIntervalLookup(low, high, values, arguments, fillvalue, tiebreak, L) ==
  Invoke("interval_lookup",
         [low |-> low, high |-> high, values |-> values, arguments |-> arguments,
          fillvalue |-> fillvalue, tiebreak |-> tiebreak, locales |-> L])

\* interval_lookup on one array of arguments: every set of intervals with
\* high >= low, plain values and codes, tiebreaks and fill values; on rows
\* of two columns with every set of boxes; and on arguments of another dtype
InvokeIntervalLookup ==
  /\ pc = "idle"
  /\ \/ \E n \in 0..MaxIntervals :
          \E iv \in IntervalsOver(n, Points), v \in SeqsUpTo(Points, MaxSearchVals),
             val \in IntervalValues(n) :
            \E c \in LookupChoices(val) :
              /\ AllValid(iv)
              /\ DoIntervalLookup(Single(Int64(iv[1])), Single(Int64(iv[2])), val,
                                  Single(Int64(v)), c[2], c[1], 1)
     \/ \E n \in 0..MaxIntervals, nv \in 0..MaxRows :
          \E iv1 \in IntervalsOver(n, AxisPoints), iv2 \in IntervalsOver(n, AxisPoints),
             v1 \in [1..nv -> AxisPoints], v2 \in [1..nv -> AxisPoints] :
            /\ AllValid(iv1) /\ AllValid(iv2)
            /\ DoIntervalLookup(Multi(<<Int64(iv1[1]), Int64(iv2[1])>>),
                                Multi(<<Int64(iv1[2]), Int64(iv2[2])>>),
                                RawValues(AsSeq([j \in 1..n |-> 10 * j])),
                                Multi(<<Int64(v1), Int64(v2)>>),
                                FillWith(DefaultFill), NoTiebreak, 1)
     \/ \E x \in SearchShapeArrays :
          DoIntervalLookup(Single(Int64(<<0>>)), Single(Int64(<<0>>)), RawValues(<<10>>),
                           Single(x), FillWith(DefaultFill), NoTiebreak, 1)

\* the calls themselves: each runs to its return or its exception
In1dIntervals ==
  /\ pc = "called" /\ op = "in1d_intervals"
  /\ ret' = in1d_intervals(args.vals, args.low, args.high, args.symmetric, args.locales)
  /\ pc' = "done"
  /\ UNCHANGED <<op, args>>

IntervalLookup ==
  /\ pc = "called" /\ op = "interval_lookup"
  /\ ret' = interval_lookup(args.low, args.high, args.values, args.arguments,
                            args.fillvalue, args.tiebreak, args.locales)
  /\ pc' = "done"
  /\ UNCHANGED <<op, args>>

ZeroUp ==
  /\ pc = "called" /\ op = "zero_up"
  /\ ret' = Ok(zero_up(args.vals), FALSE, <<"GroupBy", "arange", "broadcast">>)
  /\ pc' = "done"
  /\ UNCHANGED <<op, args>>

Align ==
  /\ pc = "called" /\ op = "align"
  /\ ret' = Ok(align(args.arrays), FALSE, <<"concatenate", "GroupBy", "arange", "broadcast">>)
  /\ pc' = "done"
  /\ UNCHANGED <<op, args>>

RightAlign ==
  /\ pc = "called" /\ op = "right_align"
  /\ ret' = Ok(right_align(args.left, args.right), FALSE,
               <<"unique", "in1d", "concatenate", "GroupBy", "arange", "broadcast">>)
  /\ pc' = "done"
  /\ UNCHANGED <<op, args>>

Find ==
  /\ pc = "called" /\ op = "find"
  /\ ret' = find(args.query, args.space, args.locales)
  /\ pc' = "done"
  /\ UNCHANGED <<op, args>>

Lookup ==
  /\ pc = "called" /\ op = "lookup"
  /\ ret' = lookup(args.keys, args.values, args.arguments, args.fillvalue, args.locales)
  /\ pc' = "done"
  /\ UNCHANGED <<op, args>>

SearchIntervals ==
  /\ pc = "called" /\ op = "search_intervals"
  /\ ret' = search_intervals(args.vals, args.low, args.high, args.tiebreak, args.locales)
  /\ pc' = "done"
  /\ UNCHANGED <<op, args>>

\* the call is over; nothing is retained across calls
Return ==
  /\ pc = "done"
  /\ pc' = "idle" /\ op' = "none" /\ args' = NoArgs /\ ret' = NoRet

\* keys of the calls that are run twice: two values give duplicate keys,
\* keys present and keys absent
TwiceKeys == 0..1

\* n rows of two columns over the keys
TwiceRows(n) == {<<c1, c2>> : c1 \in [1..n -> TwiceKeys], c2 \in [1..n -> TwiceKeys]}

\* the calls that are run twice, the first time as over one locale: find and
\* lookup on one array and on two columns, search_intervals on boxes with a
\* tiebreak, interval_lookup on boxes that are squares
InvokeTwice ==
  /\ pc = "idle"
  /\ \/ \E q \in SeqsUpTo(TwiceKeys, MaxQuery), s \in SeqsUpTo(TwiceKeys, MaxSpace) :
          DoFind(Single(Int64(q)), Single(Int64(s)), 1)
     \/ \E nq \in 0..(MaxQuery - 1), ns \in 0..(MaxSpace - 1) :
          \E q \in TwiceRows(nq), s \in TwiceRows(ns) :
            DoFind(Multi(<<Int64(q[1]), Int64(q[2])>>), Multi(<<Int64(s[1]), Int64(s[2])>>), 1)
     \/ \E q \in SeqsUpTo(TwiceKeys, MaxQuery), s \in SeqsUpTo(TwiceKeys, MaxSpace) :
          DoLookup(Single(Int64(s)), RawValues(arangeFrom(10, 10 + Len(s))),
                   Single(Int64(q)), DefaultFill, 1)
     \/ \E n \in 0..MaxIntervals, nv \in 0..MaxRows :
          \E iv1 \in IntervalsOver(n, AxisPoints), iv2 \in IntervalsOver(n, AxisPoints),
             v1 \in [1..nv -> AxisPoints], v2 \in [1..nv -> AxisPoints] :
            /\ AllValid(iv1) /\ AllValid(iv2)
            /\ DoSearch(Multi(<<Int64(v1), Int64(v2)>>),
                        Multi(<<Int64(iv1[1]), Int64(iv2[1])>>),
                        Multi(<<Int64(iv1[2]), Int64(iv2[2])>>), Tiebreak(Reversed(n)), 1)
     \/ \E n \in 0..MaxIntervals, nv \in 0..MaxRows :
          \E iv \in IntervalsOver(n, AxisPoints),
             v1 \in [1..nv -> AxisPoints], v2 \in [1..nv -> AxisPoints] :
            /\ AllValid(iv)
            /\ DoIntervalLookup(Multi(<<Int64(iv[1]), Int64(iv[1])>>),
                                Multi(<<Int64(iv[2]), Int64(iv[2])>>),
                                RawValues(AsSeq([j \in 1..n |-> 10 * j])),
                                Multi(<<Int64(v1), Int64(v2)>>),
                                FillWith(DefaultFill), NoTiebreak, 1)

\* the outcome of the call of op on args when the unordered concatenations
\* interleave as over L locales
Outcome(L) ==
  CASE op = "find" -> find(args.query, args.space, L)
    [] op = "lookup" -> lookup(args.keys, args.values, args.arguments, args.fillvalue, L)
    [] op = "search_intervals" ->
         search_intervals(args.vals, args.low, args.high, args.tiebreak, L)
    [] op = "interval_lookup" ->
         interval_lookup(args.low, args.high, args.values, args.arguments,
                         args.fillvalue, args.tiebreak, L)

\* the same call once more on the same arguments, under any interleaving;
\* both outcomes are kept side by side
Rerun ==
  /\ pc = "done"
  /\ op \in {"find", "lookup", "search_intervals", "interval_lookup"}
  /\ \E L \in Locales :
       ret' = [kind |-> "rerun", first |-> ret, second |-> Outcome(L), locales |-> L]
  /\ pc' = "rerun"
  /\ UNCHANGED <<op, args>>

\* the second call is over
ReturnRerun ==
  /\ pc = "rerun"
  /\ pc' = "idle" /\ op' = "none" /\ args' = NoArgs /\ ret' = NoRet

NextFind == InvokeFind \/ Find \/ Return

SpecFind == Init /\ [][NextFind]_vars

NextLookup == InvokeLookup \/ Lookup \/ Return

SpecLookup == Init /\ [][NextLookup]_vars

NextSearchSingle == InvokeSearchSingle \/ SearchIntervals \/ Return

SpecSearchSingle == Init /\ [][NextSearchSingle]_vars

NextSearchMulti == InvokeSearchMulti \/ SearchIntervals \/ Return

SpecSearchMulti == Init /\ [][NextSearchMulti]_vars

NextSearchArgs == InvokeSearchArgs \/ SearchIntervals \/ Return

SpecSearchArgs == Init /\ [][NextSearchArgs]_vars

NextAlign ==
  \/ InvokeZeroUp \/ ZeroUpAgain \/ ZeroUp
  \/ InvokeAlign \/ AlignAgain \/ Align
  \/ InvokeRightAlign \/ RightAlign
  \/ Return

SpecAlign == Init /\ [][NextAlign]_vars

NextIn1dIntervals == InvokeIn1dIntervals \/ In1dIntervals \/ Return

SpecIn1dIntervals == Init /\ [][NextIn1dIntervals]_vars

NextIntervalLookup == InvokeIntervalLookup \/ IntervalLookup \/ Return

SpecIntervalLookup == Init /\ [][NextIntervalLookup]_vars

NextRerun ==
  \/ InvokeTwice
  \/ Find
  \/ Lookup
  \/ SearchIntervals
  \/ IntervalLookup
  \/ Rerun
  \/ Return
  \/ ReturnRerun

SpecRerun == Init /\ [][NextRerun]_vars

Next ==
  \/ InvokeTwice
  \/ Rerun
  \/ ReturnRerun
  \/ InvokeIn1dIntervals
  \/ InvokeIntervalLookup
  \/ In1dIntervals
  \/ IntervalLookup
  \/ InvokeZeroUp
  \/ ZeroUpAgain
  \/ InvokeAlign
  \/ AlignAgain
  \/ InvokeRightAlign
  \/ ZeroUp
  \/ Align
  \/ RightAlign
  \/ InvokeFind
  \/ InvokeLookup
  \/ InvokeSearchSingle
  \/ InvokeSearchMulti
  \/ InvokeSearchArgs
  \/ Find
  \/ Lookup
  \/ SearchIntervals
  \/ Return

Spec == Init /\ [][Next]_vars

----------------------------------------------------------------------------
(* What the results are measured against *)

\* number of rows of a key set
NRows(x) == Len(x.cols[1].data)

\* row k of a key set, one entry per column
KeyRow(x, k) == [a \in 1..Len(x.cols) |-> x.cols[a].data[k]]

\* the 1-based positions of the rows of space equal to row k of query
MatchesIn(query, space, k) == {p \in 1..NRows(space) : KeyRow(space, p) = KeyRow(query, k)}

\* 0-based lowest position in space of row k of query, or -1
LowestMatch(query, space, k) ==
  IF MatchesIn(query, space, k) = {} THEN -1
  ELSE (CHOOSE p \in MatchesIn(query, space, k) :
          \A q \in MatchesIn(query, space, k) : p <= q) - 1

\* a key set: at least one column, columns of one length
IsKeySet(x) ==
  /\ Len(x.cols) >= 1
  /\ \A a, b \in 1..Len(x.cols) : Len(x.cols[a].data) = Len(x.cols[b].data)

\* query and space are key sets of one form, one arity and the same classes
\* and dtypes column by column
Comparable(query, space) ==
  /\ IsKeySet(query) /\ IsKeySet(space)
  /\ query.form = space.form
  /\ Len(query.cols) = Len(space.cols)
  /\ \A a \in 1..Len(query.cols) :
        /\ query.cols[a].objtype = space.cols[a].objtype
        /\ query.cols[a].dtype = space.cols[a].dtype

FindDone == pc = "done" /\ op = "find"

\* the result of find is the lowest matching position, or -1, row by row
FindResultRight ==
  /\ Len(ret.val) = NRows(args.query)
  /\ \A k \in 1..Len(ret.val) : ret.val[k] = LowestMatch(args.query, args.space, k)

\* some row occurs twice in the key set
HasDuplicate(x) ==
  \E p, q \in 1..NRows(x) : p < q /\ KeyRow(x, p) = KeyRow(x, q)

LookupDone == pc = "done" /\ op = "lookup"

SearchDone == pc = "done" /\ op = "search_intervals"

\* number of intervals of a call
NIntervals(a) == Len(a.low.cols[1].data)

\* the 1-based ids of the intervals that hold row k of vals on every axis,
\* both bounds included
Containing(a, k) ==
  {j \in 1..NIntervals(a) :
     \A x \in 1..Len(a.vals.cols) :
       /\ a.low.cols[x].data[j] <= a.vals.cols[x].data[k]
       /\ a.vals.cols[x].data[k] <= a.high.cols[x].data[j]}

\* the tiebreak value of interval j (1-based): the caller's, or its id
TieOf(a, j) == IF a.tiebreak.given THEN a.tiebreak.data[j] ELSE j - 1

\* r (0-based, or -1) is a right answer for row k: -1 when no interval holds
\* the row, else a holding interval of least tiebreak
RightInterval(a, k, r) ==
  IF Containing(a, k) = {} THEN r = -1
  ELSE /\ r + 1 \in Containing(a, k)
       /\ \A j \in Containing(a, k) : TieOf(a, r + 1) <= TieOf(a, j)

\* the element types search_intervals is specified for
Numeric == {"int64", "uint64", "float64"}

\* vals, low and high are key sets of numeric arrays, of one form and arity
\* and of one dtype axis by axis, low and high of one length, and the
\* tiebreak, when given, is an array with one entry per interval
WellFormedSearch(a) ==
  /\ IsKeySet(a.vals) /\ IsKeySet(a.low) /\ IsKeySet(a.high)
  /\ a.vals.form = a.low.form /\ a.vals.form = a.high.form
  /\ Len(a.vals.cols) = Len(a.low.cols) /\ Len(a.vals.cols) = Len(a.high.cols)
  /\ \A c \in 1..Len(a.vals.cols) :
        /\ \A x \in {a.vals, a.low, a.high} : x.cols[c].objtype = "pdarray"
        /\ a.vals.cols[c].dtype \in Numeric
        /\ a.low.cols[c].dtype = a.vals.cols[c].dtype
        /\ a.high.cols[c].dtype = a.vals.cols[c].dtype
  /\ NRows(a.low) = NRows(a.high)
  /\ a.tiebreak.given => a.tiebreak.ispdarray /\ Len(a.tiebreak.data) = NRows(a.low)

\* some interval has its upper bound below its lower bound on some axis
SomeHighBelowLow(a) ==
  \E c \in 1..Len(a.low.cols) : \E j \in 1..NRows(a.low) :
    a.high.cols[c].data[j] < a.low.cols[c].data[j]

ValidSearch(a) == WellFormedSearch(a) /\ ~SomeHighBelowLow(a)

\* the primitives that combine, order or scan the values
ScanPrims == {"concatenate", "argsort", "gen_ranges", "broadcast", "GroupBy", "argmin", "count"}

\* query and space differ in form or arity, hold columns of unequal
\* length, or differ in dtype in some column
FindMismatch(query, space) ==
  \/ query.form # space.form
  \/ Len(query.cols) # Len(space.cols)
  \/ \E a, b \in 1..Len(query.cols) : Len(query.cols[a].data) # Len(query.cols[b].data)
  \/ \E a, b \in 1..Len(space.cols) : Len(space.cols[a].data) # Len(space.cols[b].data)
  \/ \E a \in 1..Len(query.cols) : query.cols[a].dtype # space.cols[a].dtype

\* vals and (low, high) mix the forms, differ in arity, or differ in
\* dtype on some axis
FormArityDtypeMismatch(a) ==
  \/ a.vals.form # a.low.form \/ a.vals.form # a.high.form
  \/ Len(a.vals.cols) # Len(a.low.cols) \/ Len(a.vals.cols) # Len(a.high.cols)
  \/ \E c \in 1..Len(a.vals.cols) :
        \/ a.low.cols[c].dtype # a.vals.cols[c].dtype
        \/ a.high.cols[c].dtype # a.vals.cols[c].dtype

\* some column of vals, low or high has an element type that is not numeric
NonNumeric(a) ==
  \E x \in {a.vals, a.low, a.high} : \E c \in 1..Len(x.cols) : x.cols[c].dtype \notin Numeric

\* an arity, length or dtype mismatch among the arguments of search_intervals
SearchMismatch(a) ==
  \/ FormArityDtypeMismatch(a)
  \/ \E x \in {a.vals, a.low, a.high} : \E c, d \in 1..Len(x.cols) :
        Len(x.cols[c].data) # Len(x.cols[d].data)
  \/ NRows(a.low) # NRows(a.high)
  \/ a.tiebreak.given /\ Len(a.tiebreak.data) # NRows(a.low)

\* the result of search_intervals has a right answer for every row
SearchResultRight ==
  /\ Len(ret.val) = NRows(args.vals)
  /\ \A k \in 1..Len(ret.val) : RightInterval(args, k, ret.val[k])

----------------------------------------------------------------------------
(* Claims *)

\* C1: find on comparable key sets of any arity returns one entry per
\* query row, in query order; entry k is the lowest position in space whose
\* row equals query row k on every column, or -1 when there is none; no
\* result of find ever holds any other value.
C1_FindLowestPosition ==
  FindDone =>
    /\ Comparable(args.query, args.space) => ret.kind = "ok"
    /\ ret.kind = "ok" => FindResultRight

\* C1 witness: a two-column find over two locales whose query row occurs
\* twice in space and gets the lower of the two positions
C1_Witness ==
  /\ FindDone /\ ret.kind = "ok"
  /\ args.query.form = "list" /\ Len(args.query.cols) = 2 /\ args.locales = 2
  /\ \E k \in 1..Len(ret.val) :
        /\ Cardinality(MatchesIn(args.query, args.space, k)) = 2
        /\ ret.val[k] + 1 \in MatchesIn(args.query, args.space, k)

\* C2: search_intervals on one array of values and intervals with
\* high >= low returns, for every value, -1 exactly when no interval holds
\* it (low <= value <= high, bounds included, low = high allowed), and
\* otherwise a holding interval of least tiebreak: with the default
\* tiebreak, the holding interval of least id.
C2_SingleAxisClosedIntervals ==
  (SearchDone /\ args.vals.form = "array" /\ ValidSearch(args)) =>
    /\ ret.kind = "ok"
    /\ SearchResultRight

\* C2 witness: a value equal to both bounds of an interval and held by two
\* intervals gets the one of higher id, which the tiebreak prefers
C2_Witness ==
  /\ SearchDone /\ args.vals.form = "array" /\ ret.kind = "ok"
  /\ args.tiebreak.given
  /\ \E k \in 1..Len(ret.val) :
        /\ Containing(args, k) = {1, 2}
        /\ ret.val[k] = 1
        /\ args.low.cols[1].data[2] = args.vals.cols[1].data[k]
        /\ args.high.cols[1].data[2] = args.vals.cols[1].data[k]
        /\ TieOf(args, 2) < TieOf(args, 1)

\* C3: in every array search_intervals returns for rows of several columns,
\* an entry is non-negative only for an interval that holds the row on
\* every axis; an interval holding the row on some axes only is never
\* its answer; and every row held on all axes by some interval gets a
\* holding interval of least tiebreak (by default the least id).
C3_MultiAxisAllAxes ==
  (SearchDone /\ args.vals.form = "list" /\ ValidSearch(args)) =>
    /\ (\E k \in 1..NRows(args.vals) : Containing(args, k) # {}) => ret.kind = "ok"
    /\ ret.kind = "ok" => SearchResultRight

\* C3 witness: a row held by interval 0 on the first axis only and by
\* interval 1 on both axes gets interval 1
C3_Witness ==
  /\ SearchDone /\ args.vals.form = "list" /\ ret.kind = "ok"
  /\ Len(args.vals.cols) = 2 /\ NIntervals(args) = 2
  /\ \E k \in 1..Len(ret.val) :
        /\ args.low.cols[1].data[1] <= args.vals.cols[1].data[k]
        /\ args.vals.cols[1].data[k] <= args.high.cols[1].data[1]
        /\ args.vals.cols[2].data[k] > args.high.cols[2].data[1]
        /\ Containing(args, k) = {2}
        /\ ret.val[k] = 1

\* C4: search_intervals on valid rows of several columns always returns an
\* array with one entry per row, -1 where no interval holds the row, also
\* when no interval has anything between its bounds on every axis.
C4_MultiAxisAlwaysReturns ==
  (SearchDone /\ args.vals.form = "list" /\ ValidSearch(args)) =>
    /\ ret.kind = "ok"
    /\ SearchResultRight

\* C5: lookup with one value per key returns one entry per argument: the
\* value at the lowest position of the argument in keys (so, of the first
\* of duplicate keys), or fillvalue when the argument is not in keys.
C5_LookupValues ==
  (/\ LookupDone
   /\ args.values.kind = "pdarray"
   /\ Comparable(args.arguments, args.keys)
   /\ Len(args.values.data) = NRows(args.keys)) =>
    /\ ret.kind = "ok"
    /\ Len(ret.val) = NRows(args.arguments)
    /\ \A k \in 1..Len(ret.val) :
          ret.val[k] = IF LowestMatch(args.arguments, args.keys, k) = -1
                         THEN args.fillvalue
                       ELSE At(args.values.data, LowestMatch(args.arguments, args.keys, k))

\* C5 witness: one argument matches two keys of different values and gets
\* the value of the first, another is absent and gets the caller's fill value
C5_Witness ==
  /\ LookupDone /\ ret.kind = "ok" /\ args.values.kind = "pdarray"
  /\ args.fillvalue # DefaultFill
  /\ Len(args.values.data) = NRows(args.keys)
  /\ \E k, m \in 1..Len(ret.val) :
        /\ \E p, q \in MatchesIn(args.arguments, args.keys, k) :
              /\ p < q /\ args.values.data[p] # args.values.data[q]
              /\ ret.val[k] = args.values.data[p]
        /\ MatchesIn(args.arguments, args.keys, m) = {}
        /\ ret.val[m] = args.fillvalue

\* C6: find signals duplicates exactly when some row occurs more than
\* once in space (rows repeated in query alone never do), and the signal
\* is not an error: the call still returns the lowest matching position
\* of every query row.
C6_DuplicateSignal ==
  FindDone =>
    /\ ret.kind = "ok" => (ret.warned <=> HasDuplicate(args.space))
    /\ ret.warned => ret.kind = "ok" /\ FindResultRight
    /\ (Comparable(args.query, args.space) /\ HasDuplicate(args.space)) => ret.kind = "ok"

\* C6 witness: space repeats a key, the signal is raised, and the query
\* holds the repeated key and a key that is not in space
C6_Witness ==
  /\ FindDone /\ ret.kind = "ok" /\ ret.warned
  /\ \E k, m \in 1..Len(ret.val) :
        /\ Cardinality(MatchesIn(args.query, args.space, k)) > 1
        /\ ret.val[k] >= 0
        /\ ret.val[m] = -1

\* C7: search_intervals on otherwise well-formed arguments raises
\* ValueError whenever some interval has high < low on some axis, for one
\* array of values and for rows of several columns alike, and before any
\* concatenation, sort or scan; with high >= low everywhere, high = low
\* included, it raises no error.
C7_HighBelowLowRejected ==
  (SearchDone /\ WellFormedSearch(args)) =>
    IF SomeHighBelowLow(args)
      THEN ret.kind = "ValueError" /\ Range(ret.prims) \cap ScanPrims = {}
    ELSE ret.kind \in {"ok", "None"}

\* C7 witness: rows of two columns, high >= low on the first axis, one
\* interval with high < low on the second: ValueError
C7_Witness ==
  /\ SearchDone /\ WellFormedSearch(args)
  /\ args.vals.form = "list" /\ Len(args.vals.cols) = 2
  /\ \A j \in 1..NIntervals(args) : args.high.cols[1].data[j] >= args.low.cols[1].data[j]
  /\ \E j \in 1..NIntervals(args) : args.high.cols[2].data[j] < args.low.cols[2].data[j]
  /\ \E j \in 1..NIntervals(args) : args.high.cols[2].data[j] = args.low.cols[2].data[j]
  /\ ret.kind = "ValueError"

\* C8: in find and search_intervals, an arity, length or dtype mismatch
\* among the arguments is reported by an error raised before any primitive
\* (arange, concatenate, argsort, GroupBy, ...) has been called.
C8_ValidationBeforePrimitives ==
  /\ (FindDone /\ FindMismatch(args.query, args.space)) =>
        ret.kind \in {"TypeError", "ValueError"} /\ ret.prims = <<>>
  /\ (SearchDone /\ SearchMismatch(args)) =>
        ret.kind \in {"TypeError", "ValueError"} /\ ret.prims = <<>>

\* C9: find raises TypeError and returns nothing whenever query and space
\* differ in arity, hold columns of unequal length within one key set, or
\* differ in dtype in some column, single arrays included.
C9_FindTypeError ==
  (FindDone /\ FindMismatch(args.query, args.space)) =>
    ret.kind = "TypeError" /\ ret.val = <<>>

\* C10: search_intervals raises TypeError whenever vals and (low, high) mix
\* the single-array and the several-column forms, differ in arity, differ
\* in dtype on some axis, or hold a non-numeric element type.
C10_SearchTypeError ==
  (SearchDone /\ (FormArityDtypeMismatch(args) \/ NonNumeric(args))) =>
    ret.kind = "TypeError"

----------------------------------------------------------------------------
(* Dense indices *)

\* the rank of v among the values of the set S
RankIn(v, S) == Cardinality({x \in S : x < v})

\* the values of all the arrays together
AllValues(arrays) == UNION {Range(arrays[a]) : a \in 1..Len(arrays)}

\* v holds every integer of 0..U-1 for some U, and nothing else
IsDenseIndex(v) == Range(v) = 0..(Cardinality(Range(v)) - 1)

ZeroUpDone == pc = "done" /\ op = "zero_up"

AlignDone == pc = "done" /\ op = "align"

RightAlignDone == pc = "done" /\ op = "right_align"

\* C17: zero_up returns an array of the length of its argument, in the
\* order of the argument, whose entry k is the rank of values[k] among the
\* ascending distinct values: the indices are exactly 0..U-1, equal values
\* have equal indices, and values[a] < values[b] iff index[a] < index[b].
C17_ZeroUpRanks ==
  ZeroUpDone =>
    /\ ret.kind = "ok"
    /\ Len(ret.val) = Len(args.vals)
    /\ \A k \in 1..Len(ret.val) : ret.val[k] = RankIn(args.vals[k], Range(args.vals))
    /\ Range(ret.val) = 0..(Cardinality(Range(args.vals)) - 1)
    /\ \A a, b \in 1..Len(ret.val) :
          /\ args.vals[a] = args.vals[b] <=> ret.val[a] = ret.val[b]
          /\ args.vals[a] < args.vals[b] <=> ret.val[a] < ret.val[b]

\* C17 witness: zero_up([5, 0, 10, 5]) = [1, 0, 2, 1]
C17_Witness ==
  ZeroUpDone /\ args.vals = <<5, 0, 10, 5>> /\ ret.val = <<1, 0, 2, 1>>

\* C18: align returns one array per argument, of the length of that
\* argument and in the order of the arguments; two positions of the results
\* hold the same index iff their source values are equal, also across
\* arrays; and the indices used are exactly 0..distinctCount-1.
C18_AlignCommonIndex ==
  AlignDone =>
    /\ ret.kind = "ok"
    /\ Len(ret.val) = Len(args.arrays)
    /\ \A a \in 1..Len(ret.val) : Len(ret.val[a]) = Len(args.arrays[a])
    /\ \A a, b \in 1..Len(ret.val) :
          \A i \in 1..Len(ret.val[a]), j \in 1..Len(ret.val[b]) :
            ret.val[a][i] = ret.val[b][j] <=> args.arrays[a][i] = args.arrays[b][j]
    /\ AllValues(ret.val) = 0..(Cardinality(AllValues(args.arrays)) - 1)

\* C18 witness: two arrays with gaps share one value, at different
\* positions, and each holds a value the other lacks
C18_Witness ==
  /\ AlignDone /\ Len(args.arrays) = 2 /\ ~IsDenseIndex(args.arrays[1] \o args.arrays[2])
  /\ \E i \in 1..Len(args.arrays[1]), j \in 1..Len(args.arrays[2]) :
        i # j /\ args.arrays[1][i] = args.arrays[2][j] /\ ret.val[1][i] = ret.val[2][j]
  /\ Range(args.arrays[1]) \ Range(args.arrays[2]) # {}
  /\ Range(args.arrays[2]) \ Range(args.arrays[1]) # {}

\* C19: right_align returns (keep, (denseLeft, denseRight)): keep[k] is
\* true iff left[k] occurs in right; denseLeft has one entry per true
\* position of keep; every index of denseLeft occurs in denseRight; and
\* right alone defines the indices: denseRight is the rank array of right
\* and all indices lie in 0..(number of distinct values of right)-1.
C19_RightAlignUniverse ==
  RightAlignDone =>
    /\ ret.kind = "ok"
    /\ Len(ret.val.keep) = Len(args.left)
    /\ \A k \in 1..Len(args.left) : ret.val.keep[k] <=> args.left[k] \in Range(args.right)
    /\ Len(ret.val.aligned) = 2
    /\ Len(ret.val.aligned[1]) = Cardinality({k \in 1..Len(args.left) : ret.val.keep[k]})
    /\ Range(ret.val.aligned[1]) \subseteq Range(ret.val.aligned[2])
    /\ Len(ret.val.aligned[2]) = Len(args.right)
    /\ \A k \in 1..Len(args.right) :
          ret.val.aligned[2][k] = RankIn(args.right[k], Range(args.right))
    /\ AllValues(ret.val.aligned) \subseteq 0..(Cardinality(Range(args.right)) - 1)

\* C19 witness: left holds a value of right and a value that right lacks
C19_Witness ==
  /\ RightAlignDone /\ Len(args.left) = 2 /\ Len(args.right) = 2
  /\ ret.val.keep = <<FALSE, TRUE>>
  /\ Len(ret.val.aligned[1]) = 1
  /\ args.left[1] < args.left[2]
  /\ ret.val.aligned[2] = <<1, 0>>

\* C20: align of one array that already is a dense index (every value of
\* 0..U-1, nothing else) returns it unchanged; so align of the results of
\* align returns them unchanged, and zero_up of the result of zero_up
\* returns it unchanged.
C20_AlignIdempotent ==
  /\ (AlignDone /\ Len(args.arrays) = 1 /\ IsDenseIndex(args.arrays[1])) =>
        ret.val = args.arrays
  /\ (AlignDone /\ args.again) => ret.val = args.arrays
  /\ (ZeroUpDone /\ (args.again \/ IsDenseIndex(args.vals))) => ret.val = args.vals

\* C20 witness: the results of align on two arrays, three indices in all,
\* have been aligned again
C20_Witness ==
  /\ AlignDone /\ args.again /\ Len(args.arrays) = 2
  /\ Cardinality(AllValues(args.arrays)) = 3
  /\ ret.val = args.arrays

----------------------------------------------------------------------------
(* Interval membership and interval lookup *)

In1dDone == pc = "done" /\ op = "in1d_intervals"

IntervalLookupDone == pc = "done" /\ op = "interval_lookup"

\* the arguments of in1d_intervals and of interval_lookup as a search
In1dSearch == [vals |-> args.vals, low |-> args.low, high |-> args.high, tiebreak |-> NoTiebreak]

LookupSearch ==
  [vals |-> args.arguments, low |-> args.low, high |-> args.high, tiebreak |-> args.tiebreak]

\* in1d_intervals was called as documented: one array of values, intervals
\* that search_intervals accepts
In1dValid == In1dDone /\ args.vals.form = "array" /\ ValidSearch(In1dSearch)

\* the per-value and the per-interval result of in1d_intervals
FoundOf == IF args.symmetric THEN ret.val[1] ELSE ret.val

FlagsOf == ret.val[2]

\* the least id (1-based) of the intervals that hold value k
Winner(a, k) == CHOOSE j \in Containing(a, k) : \A i \in Containing(a, k) : j <= i

\* interval_lookup was called on intervals that search_intervals accepts,
\* with one value per interval
LookupValid ==
  /\ IntervalLookupDone
  /\ ValidSearch(LookupSearch)
  /\ Len(args.values.data) = NIntervals(LookupSearch)

\* r is the value at a holding interval of least tiebreak of argument k,
\* or fill when no interval holds it
RightValue(k, r, fill) ==
  IF Containing(LookupSearch, k) = {} THEN r = fill
  ELSE \E j \in Containing(LookupSearch, k) :
         /\ \A i \in Containing(LookupSearch, k) : TieOf(LookupSearch, j) <= TieOf(LookupSearch, i)
         /\ r = args.values.data[j]

\* C11: interval_lookup on plain values returns one entry per argument:
\* the value at the interval search_intervals finds for the argument under
\* the tiebreak (a holding interval of least tiebreak), or fillvalue when
\* no interval holds the argument.
C11_IntervalLookupValues ==
  (LookupValid /\ args.values.kind = "pdarray" /\ args.fillvalue.given) =>
    /\ ret.kind = "ok"
    /\ Len(ret.val) = NRows(args.arguments)
    /\ \A k \in 1..Len(ret.val) : RightValue(k, ret.val[k], args.fillvalue.value)

\* what does hold of interval_lookup on plain values: the statement of C11
\* for one array of arguments
IntervalLookupSingleArray ==
  (LookupValid /\ args.values.kind = "pdarray" /\ args.fillvalue.given
     /\ args.arguments.form = "array") =>
    /\ ret.kind = "ok"
    /\ Len(ret.val) = NRows(args.arguments)
    /\ \A k \in 1..Len(ret.val) : RightValue(k, ret.val[k], args.fillvalue.value)

\* C12: interval_lookup on Categorical values returns the codes that
\* interval_lookup gives on the code array with the same keys, arguments
\* and the caller's tiebreak, the missing code as fill: an argument held by
\* several intervals gets the code of the one of least caller tiebreak.
C12_CategoricalKeepsTiebreak ==
  (LookupValid /\ args.values.kind = "Categorical") =>
    /\ ret.kind = "ok"
    /\ Len(ret.val) = NRows(args.arguments)
    /\ \A k \in 1..Len(ret.val) : RightValue(k, ret.val[k], args.values.NAcode)

C14_HalfOpen ==
  In1dValid =>
    /\ ret.kind = "ok"
    /\ Len(FoundOf) = NRows(args.vals)
    /\ \A k \in 1..Len(FoundOf) :
          FoundOf[k] <=> \E j \in 1..NIntervals(In1dSearch) :
                           /\ args.vals.cols[1].data[k] >= args.low.cols[1].data[j]
                           /\ args.vals.cols[1].data[k] < args.high.cols[1].data[j]

NoValueInTwo == \A k \in 1..NRows(args.vals) : Cardinality(Containing(In1dSearch, k)) <= 1

----------------------------------------------------------------------------
(* Determinism *)

\* the key array of find as concatenated over L locales (line 128)
KeysOver(L) == concatenate(<<args.space.cols[1].data, args.query.cols[1].data>>, FALSE, L)

\* C21: a second run of find, lookup, search_intervals or interval_lookup
\* on the same inputs (tiebreak included) has the outcome of the first,
\* however the unordered concatenations of either run interleave their
\* blocks, with duplicate keys and with overlapping intervals too.
C21_Deterministic == pc = "rerun" => ret.second = ret.first

\* C21 witness: find on a space with a duplicate key, run twice with the
\* keys interleaved differently, both runs returning positions
C21_Witness ==
  /\ pc = "rerun" /\ op = "find"
  /\ args.query.form = "array"
  /\ HasDuplicate(args.space)
  /\ ret.first.kind = "ok" /\ ret.first.warned
  /\ \E k \in 1..Len(ret.first.val) : ret.first.val[k] >= 0
  /\ KeysOver(args.locales) # KeysOver(ret.locales)

\* overlapping boxes, searched twice with different interleavings of the
\* per-axis hits, a row held by both boxes
RerunOverlapping ==
  /\ pc = "rerun" /\ op = "search_intervals"
  /\ args.vals.form = "list"
  /\ args.locales # ret.locales
  /\ ret.first.kind = "ok"
  /\ \E k \in 1..Len(ret.first.val) :
        Cardinality(Containing(args, k)) > 1 /\ ret.first.val[k] >= 0

====
